---- MODULE Spec2Model ----
(***************************************************************************)
(* Model of the NanoClaw host orchestrator (src/src/index-feishu.ts, the   *)
(* Feishu entry point) and of the container-side IPC tools                 *)
(* (src/container/agent-runner/src/ipc-mcp.ts).                            *)
(*                                                                         *)
(* Strings that JavaScript tests for truthiness are modelled so that the   *)
(* empty string "" stands for both `undefined` and '' (both falsy).        *)
(* schedule_value is a sequence of tokens (a string cut into pieces), so   *)
(* that parseInt can be computed the way JavaScript computes it.           *)
(***************************************************************************)
EXTENDS Integers, Sequences, FiniteSets, TLC

\* ------------------------------------------------------------------ bounds
\* number of IPC request files ever written
MaxFiles == 2
\* largest value of the host clock (Date.now())
MaxTime == 1
\* number of incoming chat messages ever delivered
MaxMsgs == 2

\* --------------------------------------------------------------- constants
MAIN_GROUP_FOLDER == "main"
ASSISTANT_NAME == "Andy"

Absent == ""
NaN == -1
Null == -2

Chats == {"c1", "c2", "c3"}
\* directories that exist under data/ipc (one per group that has run)
IpcDirs == <<"alpha", "main">>
\* registries that registered_groups.json can hold at start-up
EmptyRegistry == [c \in {} |-> [name |-> "", folder |-> ""]]
TwoGroups ==
  [c \in {"c1", "c2"} |->
     IF c = "c1" THEN [name |-> "main", folder |-> "main"]
                 ELSE [name |-> "alpha", folder |-> "alpha"]]

VARIABLES
  now,               \* Date.now()
  registeredGroups,  \* chat id -> RegisteredGroup
  sessions,          \* group folder -> session id
  lastAgentTimestamp,\* chat id -> create_time of last answered message
  messages,          \* messages stored in the database
  executions,        \* runContainerAgent calls that have not returned yet
  nextMsg,           \* number of incoming messages delivered so far
  files,             \* request files in the inbound directories
  errors,            \* request files in data/ipc/errors
  nextFile,          \* number of request files written so far
  watcher,           \* position of processIpcFiles
  tasks,             \* the task store (scheduled_tasks table)
  sent,              \* calls of sendFeishuMessage, in order
  last,              \* the request file handled last in the current poll
  sessionsFile,      \* contents of data/sessions.json
  lastReturn,        \* the runContainerAgent call that settled last
  runner,            \* the agent-runner process inside the container
  faults,            \* file-system errors the watcher can still meet
  firings,           \* the scheduler's run log, one record per firing
  run,               \* the execution runner's current run of a container
  mount,             \* the mount request being resolved and the decision
  toolCall,          \* the last call of the container-side schedule_task tool
  probe              \* a pair of requests put to the authorization rules

vars == <<now, registeredGroups, sessions, lastAgentTimestamp, messages,
          executions, nextMsg, files, errors, nextFile, watcher, tasks,
          sent, last, sessionsFile, lastReturn, runner, faults, firings,
          run, mount, toolCall, probe>>

execVars == <<sessions, lastAgentTimestamp, messages, executions, nextMsg,
              sessionsFile, lastReturn>>
runnerVars == <<runner>>
schedVars == <<firings>>
containerVars == <<run>>
policyVars == <<mount>>
toolVars == <<toolCall>>
authVars == <<probe>>
ipcVars == <<files, errors, nextFile, watcher, tasks, last, faults>>

\* ------------------------------------------------------------ JS helpers
Truthy(s) == s /= Absent
TruthySeq(s) == s /= <<>>

Digits == {"0", "1", "2"}
DigitVal(d) == IF d = "0" THEN 0 ELSE IF d = "1" THEN 1 ELSE 2

RECURSIVE SkipSpace(_)
SkipSpace(s) ==
  IF s /= <<>> /\ Head(s) = " " THEN SkipSpace(Tail(s)) ELSE s

RECURSIVE ReadDigits(_, _)
\* value of the longest digit prefix of s, continuing from acc
ReadDigits(s, acc) ==
  IF s /= <<>> /\ Head(s) \in Digits
  THEN ReadDigits(Tail(s), acc * 10 + DigitVal(Head(s)))
  ELSE acc

\* parseInt(s, 10): leading blanks skipped, optional sign, then the longest
\* run of digits; anything after it is ignored; NaN when there is no digit.
\* A negative result is returned as Neg (only its sign matters to callers).
Neg == -3
parseInt(s) ==
  LET t == SkipSpace(s)
      signed == t /= <<>> /\ Head(t) \in {"-", "+"}
      u == IF signed THEN Tail(t) ELSE t
  IN IF u = <<>> \/ Head(u) \notin Digits THEN NaN
     ELSE IF signed /\ Head(t) = "-" /\ ReadDigits(u, 0) > 0 THEN Neg
     ELSE ReadDigits(u, 0)

isNaN(n) == n = NaN

\* cron-parser: the token "* * * * *" is the valid expression of the model
CronParses(s) == s = <<"* * * * *">>
\* next occurrence of the expression after the current time
CronNext_NotAfter(t) == t

CronNext(t) == t + 1

\* new Date(s).getTime() for the ISO timestamps "T0", "T1", ... of the model
TimestampTokens == {"T0", "T1", "T2", "T3", "T4"}
TokenTime(k) ==
  IF k = "T0" THEN 0 ELSE IF k = "T1" THEN 1 ELSE IF k = "T2" THEN 2
  ELSE IF k = "T3" THEN 3 ELSE 4
DateParse(s) ==
  IF Len(s) = 1 /\ s[1] \in TimestampTokens THEN TokenTime(s[1]) ELSE NaN

\* ------------------------------------------------------- request payloads
\* The JSON document of a request file.  json = FALSE: the text does not
\* parse.  A key that the document lacks is Absent (<<>> for schedule_value).
Payload(type, chatJid, chatId, text, prompt, stype, svalue, folder) ==
  [json |-> TRUE, type |-> type, chatJid |-> chatJid, chatId |-> chatId,
   text |-> text, prompt |-> prompt, schedule_type |-> stype,
   schedule_value |-> svalue, groupFolder |-> folder, taskId |-> 0]

Garbage == [Payload(Absent, Absent, Absent, Absent, Absent, Absent, <<>>,
                    Absent) EXCEPT !.json = FALSE]

MessagePayload(type, chatJid, text) ==
  Payload(type, chatJid, Absent, text, Absent, Absent, <<>>, Absent)

TaskPayload(type, prompt, stype, svalue, folder) ==
  Payload(type, Absent, Absent, Absent, prompt, stype, svalue, folder)

\* what an agent can drop into <dir>/messages with its file tools
RawMessagePayloads(dir) ==
  {MessagePayload("message", c, "hi") : c \in Chats}
    \cup (IF dir = MAIN_GROUP_FOLDER THEN {}
          ELSE {Garbage,
                MessagePayload("message", "c2", Absent),
                MessagePayload("note", "c2", "hi")})

\* schedule_type / schedule_value pairs an agent can ask for
Schedules ==
  {<<"cron", <<"* * * * *">>>>, <<"cron", <<"x">>>>,
   <<"interval", <<"2">>>>, <<"interval", <<"0">>>>,
   <<"interval", <<"x">>>>, <<"interval", <<"2", "x">>>>,
   <<"once", <<"T0">>>>, <<"once", <<"T3">>>>, <<"once", <<"x">>>>,
   <<"weekly", <<"2">>>>}

GroupFolderValues == {"main", "alpha", "beta"}

\* what an agent can drop into <dir>/tasks
RawTaskPayloads(dir) ==
  {TaskPayload("schedule_task", "p", "interval", <<"2">>, g) :
     g \in GroupFolderValues}
    \cup (IF dir = MAIN_GROUP_FOLDER
          THEN {TaskPayload("schedule_task", "p", "once", <<"T0">>, "alpha"),
                TaskPayload("schedule_task", "p", "weekly", <<"2">>, "alpha")}
          ELSE {Garbage,
                TaskPayload("bogus", Absent, Absent, <<>>, Absent),
                TaskPayload("schedule_task", "p", "interval", <<"2">>, Absent)}
               \cup {TaskPayload("schedule_task", "p", s[1], s[2], dir) :
                       s \in Schedules})

\* a pause_task / resume_task / cancel_task request for a task
TaskControlPayload(type, taskId) ==
  [TaskPayload(type, Absent, Absent, <<>>, Absent) EXCEPT !.taskId = taskId]

File(id, dir, kind, data, tool) ==
  [id |-> id, dir |-> dir, kind |-> kind, data |-> data, tool |-> tool]

NoFile == File(0, Absent, Absent, Garbage, FALSE)

\* ------------------------------------------------------------------- Init
\* the watcher between polls: one timer is armed, no poll is running
Idle == [pc |-> "idle", groups |-> <<>>, queue |-> <<>>, timers |-> 1,
         polls |-> 0]
\* the execution runner has not been called
NoRun == [pc |-> "idle", request |-> Absent, elapsed |-> 0,
          captured |-> <<>>, kills |-> 0, starts |-> 0,
          result |-> [status |-> Absent, output |-> Absent,
                      errorMessage |-> Absent]]
\* no pair of requests has been put to the authorization rules
NoProbe == [dir |-> <<Absent, Absent>>, data |-> <<Garbage, Garbage>>,
            judged |-> FALSE, verdict |-> <<FALSE, FALSE>>]
\* the schedule_task tool has not been called
NoCall == [groupFolder |-> Absent, isMain |-> FALSE, target |-> Absent,
           isError |-> FALSE, file |-> 0]
\* no mount request has been resolved
NoMount == [group |-> Absent, path |-> <<>>, rules |-> {},
            decision |-> [verdict |-> Absent, hostPath |-> <<>>,
                          readOnly |-> TRUE]]
\* no agent-runner process has been started
NotRunning == [pc |-> "off", stdin |-> Absent, prompt |-> <<>>,
               sessionId |-> Absent, iteration |-> 0, answered |-> FALSE,
               io |-> [stdout |-> <<>>, stderr |-> <<>>], exitCode |-> Null]
NoReturn == [id |-> 0, folder |-> Absent, chatJid |-> Absent,
             output |-> [status |-> "none", result |-> Absent,
                         newSessionId |-> Absent]]
NoLast == [file |-> NoFile, fate |-> "none", sends |-> 0, creates |-> 0]

\* the state of a host that has loaded its registry
HostState ==
  /\ now = 0
  /\ sessions = [g \in GroupFolderValues |-> Absent]
  /\ lastAgentTimestamp = [c \in Chats |-> Null]
  /\ messages = {}
  /\ executions = {}
  /\ nextMsg = 0
  /\ files = {}
  /\ errors = {}
  /\ nextFile = 0
  /\ watcher = Idle
  /\ tasks = <<>>
  /\ sent = <<>>
  /\ last = NoLast
  /\ sessionsFile = sessions
  /\ lastReturn = NoReturn
  /\ runner = NotRunning
  /\ firings = <<>>
  /\ run = NoRun
  /\ toolCall = NoCall

HostStarted ==
  /\ registeredGroups \in {EmptyRegistry, TwoGroups}
  /\ HostState

\* a host whose file system does not fail
Init == HostStarted /\ faults = 0 /\ mount = NoMount /\ probe = NoProbe

\* Date.now(): a reading of the host clock, never below the previous one
ClockReadings == now..MaxTime

\* ------------------------------------------------- container side (writes)
\* an agent writes a file of its own making into its group's IPC directory
AgentWritesFile ==
  /\ nextFile < MaxFiles
  /\ \E i \in 1..Len(IpcDirs) :
       \E kind \in {"messages", "tasks"} :
         \E data \in (IF kind = "messages"
                      THEN RawMessagePayloads(IpcDirs[i])
                      ELSE RawTaskPayloads(IpcDirs[i])) :
           files' = files \cup
                      {File(nextFile + 1, IpcDirs[i], kind, data, FALSE)}
  /\ nextFile' = nextFile + 1
  /\ UNCHANGED <<faults, runnerVars, containerVars, policyVars, toolVars, authVars, schedVars, now, registeredGroups,
                 execVars, errors, watcher, tasks,
                 sent, last>>

\* mcp__nanoclaw__send_message({text, chatId}) in the container of the group
\* whose chat is c: options.chatId = c, options.groupFolder = its folder
SendMessageTool(c, chatIdArg) ==
  LET targetChatId == IF Truthy(chatIdArg) THEN chatIdArg ELSE c
  IN Payload("message", Absent, targetChatId, "hi", Absent, Absent, <<>>,
             Absent)

ToolSendMessage ==
  /\ nextFile < MaxFiles
  /\ \E c \in DOMAIN registeredGroups :
       \E chatIdArg \in {Absent} :
         files' = files \cup
           {File(nextFile + 1, registeredGroups[c].folder, "messages",
                 SendMessageTool(c, chatIdArg), TRUE)}
  /\ nextFile' = nextFile + 1
  /\ UNCHANGED <<faults, runnerVars, containerVars, policyVars, toolVars, authVars, schedVars, now, registeredGroups,
                 execVars, errors, watcher, tasks,
                 sent, last>>

\* ------------------------------------------------------------ IPC watcher
RECURSIVE SortedIds(_)
\* the ids of a set of files in readdir order (names sort by creation)
SortedIds(S) ==
  IF S = {} THEN <<>>
  ELSE LET f == CHOOSE x \in S : \A y \in S : x.id <= y.id
       IN <<f.id>> \o SortedIds(S \ {f})

\* the errors area read as if it were part of the inbound directory
ListFiles_WithErrors(dir, kind) ==
  SortedIds({f \in files \cup errors : f.dir = dir /\ f.kind = kind})

\* readdirSync(<dir>/<kind>).filter(f => f.endsWith('.json'))
ListFiles(dir, kind) ==
  SortedIds({f \in files : f.dir = dir /\ f.kind = kind})

FileById(id) == CHOOSE f \in files : f.id = id

\* the unlink left out: the file stays in the inbound directory
Unlink_Forgotten(f) == files

\* fs.unlinkSync(filePath)
Unlink(f) == files \ {f}

\* the chat registered for a folder (Object.entries(...).find(...)?.[0])
ChatsOfFolder_AnyFolder(folder) == DOMAIN registeredGroups

ChatsOfFolder(folder) ==
  {c \in DOMAIN registeredGroups : registeredGroups[c].folder = folder}
TargetJid(folder) == CHOOSE c \in ChatsOfFolder(folder) : TRUE

\* the folder comparison left out: any registered chat passes
MessageAuthorized_AnyRegistered(data, sourceGroup, isMain) ==
  isMain \/ data.chatJid \in DOMAIN registeredGroups

\* the non-main rule of the messages branch
MessageAuthorized(data, sourceGroup, isMain) ==
  \/ isMain
  \/ /\ data.chatJid \in DOMAIN registeredGroups
     /\ registeredGroups[data.chatJid].folder = sourceGroup

\* the validation of the interval branch of processTaskIpc
IntervalRejected(ms) == isNaN(ms) \/ ms <= 0

\* the validation of the once branch of processTaskIpc
OnceRejected(scheduled) == isNaN(scheduled)

\* the `break` of a refused schedule value
Reject == -4
\* next_run computed by processTaskIpc; Reject when the value is refused
NextRunFor(scheduleType, value, t) ==
  IF scheduleType = "cron"
  THEN IF CronParses(value) THEN CronNext(t) ELSE Reject
  ELSE IF scheduleType = "interval"
  THEN IF IntervalRejected(parseInt(value)) THEN Reject
       ELSE t + parseInt(value)
  ELSE IF scheduleType = "once"
  THEN IF OnceRejected(DateParse(value)) THEN Reject ELSE DateParse(value)
  ELSE Null

\* the comparison inverted (=== for !==)
ScheduleAuthorized_Inverted(targetGroup, sourceGroup, isMain) ==
  isMain \/ targetGroup /= sourceGroup

\* the non-main rule of schedule_task
ScheduleAuthorized(targetGroup, sourceGroup, isMain) ==
  isMain \/ targetGroup = sourceGroup

\* does processTaskIpc reach createTask for this request?
CreatesTask(data, sourceGroup, isMain, t) ==
  /\ data.type = "schedule_task"
  /\ Truthy(data.prompt)
  /\ Truthy(data.schedule_type)
  /\ TruthySeq(data.schedule_value)
  /\ Truthy(data.groupFolder)
  /\ ScheduleAuthorized(data.groupFolder, sourceGroup, isMain)
  /\ ChatsOfFolder(data.groupFolder) /= {}
  /\ NextRunFor(data.schedule_type, data.schedule_value, t) /= Reject

\* the record handed to createTask (request, source: the file it came
\* from and the directory that file was found in)
NewTask(data, sourceGroup, t, request) ==
  [id |-> Len(tasks) + 1,
   group_folder |-> data.groupFolder,
   chat_jid |-> TargetJid(data.groupFolder),
   prompt |-> data.prompt,
   schedule_type |-> data.schedule_type,
   schedule_value |-> data.schedule_value,
   next_run |-> NextRunFor(data.schedule_type, data.schedule_value, t),
   status |-> "active",
   created_at |-> t,
   request |-> request,
   source |-> sourceGroup]

\* processTaskIpc(data, sourceGroup, isMain) run when the clock reads t:
\* the task store afterwards
processTaskIpc(data, sourceGroup, isMain, t, request) ==
  IF CreatesTask(data, sourceGroup, isMain, t)
  THEN Append(tasks, NewTask(data, sourceGroup, t, request))
  ELSE tasks

\* processIpcFiles is entered (timer fired): list the group directories and
\* the message files of the first one
PollBegin_OnInterval ==
  /\ watcher.timers > 0
  /\ watcher' = [pc |-> "messages", groups |-> IpcDirs,
                 queue |-> ListFiles(Head(IpcDirs), "messages"),
                 timers |-> watcher.timers,
                 polls |-> watcher.polls + 1]
  /\ UNCHANGED <<faults, runnerVars, containerVars, policyVars, toolVars,
                 authVars, schedVars, now, registeredGroups, execVars, files,
                 errors, nextFile, tasks, sent, last>>

PollBegin ==
  /\ watcher.timers > 0
  /\ watcher' = [pc |-> "messages", groups |-> IpcDirs,
                 queue |-> ListFiles(Head(IpcDirs), "messages"),
                 timers |-> watcher.timers - 1,
                 polls |-> watcher.polls + 1]
  /\ UNCHANGED <<faults, runnerVars, containerVars, policyVars, toolVars, authVars, schedVars, now, registeredGroups,
                 execVars, files, errors, nextFile,
                 tasks, sent, last>>

\* one iteration of the loop over messageFiles
HandleMessageFile ==
  /\ watcher.pc = "messages"
  /\ watcher.queue /= <<>>
  /\ LET f == FileById(Head(watcher.queue))
         sourceGroup == Head(watcher.groups)
         isMain == sourceGroup = MAIN_GROUP_FOLDER
         data == f.data
     IN IF ~data.json
        THEN \* JSON.parse throws: the catch block renames the file
             /\ files' = files \ {f}
             /\ errors' = errors \cup {f}
             /\ sent' = sent
             /\ last' = [file |-> f, fate |-> "errors", sends |-> 0,
                         creates |-> 0]
        ELSE IF /\ data.type = "message"
                /\ Truthy(data.chatJid)
                /\ Truthy(data.text)
                /\ MessageAuthorized(data, sourceGroup, isMain)
        THEN \E ok \in BOOLEAN :
               /\ sent' = Append(sent, [chatId |-> data.chatJid,
                                        text |-> data.text, ok |-> ok,
                                        via |-> "ipc", request |-> f.id,
                                        source |-> sourceGroup])
               /\ files' = Unlink(f)
               /\ errors' = errors
               /\ last' = [file |-> f, fate |-> "deleted", sends |-> 1,
                           creates |-> 0]
        ELSE /\ sent' = sent
             /\ files' = Unlink(f)
             /\ errors' = errors
             /\ last' = [file |-> f, fate |-> "deleted", sends |-> 0,
                         creates |-> 0]
  /\ watcher' = [watcher EXCEPT !.queue = Tail(@)]
  /\ UNCHANGED <<faults, runnerVars, containerVars, policyVars, toolVars, authVars, schedVars, now, registeredGroups,
                 execVars, nextFile, tasks>>

\* the messages of the group are done: list its task files
ListTasks ==
  /\ watcher.pc = "messages"
  /\ watcher.queue = <<>>
  /\ watcher' = [watcher EXCEPT !.pc = "tasks",
                   !.queue = ListFiles(Head(watcher.groups), "tasks")]
  /\ UNCHANGED <<faults, runnerVars, containerVars, policyVars, toolVars, authVars, schedVars, now, registeredGroups,
                 execVars, files, errors, nextFile,
                 tasks, sent, last>>

\* one iteration of the loop over taskFiles
HandleTaskFile ==
  /\ watcher.pc = "tasks"
  /\ watcher.queue /= <<>>
  /\ LET f == FileById(Head(watcher.queue))
         sourceGroup == Head(watcher.groups)
         isMain == sourceGroup = MAIN_GROUP_FOLDER
         data == f.data
     IN IF ~data.json
        THEN /\ files' = files \ {f}
             /\ errors' = errors \cup {f}
             /\ UNCHANGED <<tasks, now>>
             /\ last' = [file |-> f, fate |-> "errors", sends |-> 0,
                         creates |-> 0]
        ELSE /\ IF CreatesTask(data, sourceGroup, isMain, now)
                THEN \E t \in ClockReadings :
                       /\ now' = t
                       /\ tasks' = processTaskIpc(data, sourceGroup, isMain,
                                                  t, f.id)
                ELSE UNCHANGED <<tasks, now>>
             /\ files' = Unlink(f)
             /\ errors' = errors
             /\ last' = [file |-> f, fate |-> "deleted", sends |-> 0,
                         creates |-> Len(tasks') - Len(tasks)]
  /\ watcher' = [watcher EXCEPT !.queue = Tail(@)]
  /\ UNCHANGED <<faults, runnerVars, containerVars, policyVars, toolVars, authVars, schedVars, registeredGroups, execVars, nextFile,
                 sent>>

\* the tasks of the group are done: go on with the next group directory
NextGroup ==
  /\ watcher.pc = "tasks"
  /\ watcher.queue = <<>>
  /\ Len(watcher.groups) > 1
  /\ watcher' = [watcher EXCEPT
                   !.pc = "messages",
                   !.groups = Tail(watcher.groups),
                   !.queue = ListFiles(watcher.groups[2], "messages")]
  /\ UNCHANGED <<faults, runnerVars, containerVars, policyVars, toolVars, authVars, schedVars, now, registeredGroups,
                 execVars, files, errors, nextFile,
                 tasks, sent, last>>

\* the last group is done: setTimeout(processIpcFiles, IPC_POLL_INTERVAL)
PollEnd ==
  /\ watcher.pc = "tasks"
  /\ watcher.queue = <<>>
  /\ Len(watcher.groups) = 1
  /\ watcher' = [Idle EXCEPT !.timers = watcher.timers + 1,
                              !.polls = watcher.polls - 1]
  /\ last' = NoLast
  /\ UNCHANGED <<faults, runnerVars, containerVars, policyVars, toolVars, authVars, schedVars, now, registeredGroups,
                 execVars, files, errors, nextFile,
                 tasks, sent>>

NextIpc ==
  \/ AgentWritesFile
  \/ ToolSendMessage
  \/ PollBegin
  \/ HandleMessageFile
  \/ ListTasks
  \/ HandleTaskFile
  \/ NextGroup
  \/ PollEnd

\* ---- file-system errors met by processIpcFiles
\* number of file-system errors in one run of the host
MaxFaults == 1

\* the requests the agents write while the file system misbehaves: a
\* message to the group's own chat, a text that does not parse, a task
\* whose interval processTaskIpc turns down
OrdinaryRequests(dir) ==
  {<<"messages", MessagePayload("message", TargetJid(dir), "hi")>>,
   <<"messages", Garbage>>,
   <<"tasks", TaskPayload("schedule_task", "p", "interval", <<"0">>, dir)>>}

AgentWritesRequest ==
  /\ nextFile < MaxFiles
  /\ \E i \in 1..Len(IpcDirs) :
       \E r \in OrdinaryRequests(IpcDirs[i]) :
         files' = files \cup
                    {File(nextFile + 1, IpcDirs[i], r[1], r[2], FALSE)}
  /\ nextFile' = nextFile + 1
  /\ UNCHANGED <<faults, runnerVars, containerVars, policyVars, toolVars, authVars, schedVars, now, registeredGroups, execVars, errors,
                 watcher, tasks, sent, last>>

\* readdirSync / statSync of the base directory throws: the poll logs,
\* re-arms the timer and returns
BaseDirUnreadable_NoRearm ==
  /\ watcher.pc = "idle"
  /\ faults > 0
  /\ faults' = faults - 1
  /\ watcher' = [watcher EXCEPT !.pc = "returned", !.timers = @ - 1]
  /\ UNCHANGED <<runnerVars, containerVars, policyVars, toolVars, authVars, schedVars, now, registeredGroups, execVars, files, errors,
                 nextFile, tasks, sent, last>>

BaseDirUnreadable ==
  /\ watcher.pc = "idle"
  /\ faults > 0
  /\ faults' = faults - 1
  /\ UNCHANGED <<runnerVars, containerVars, policyVars, toolVars, authVars, schedVars, now, registeredGroups, execVars, files, errors,
                 nextFile, watcher, tasks, sent, last>>

\* reading, parsing or acting on the file throws (readFileSync, a failed
\* task creation): the inner catch block moves the file to errors/
FileActionThrows ==
  /\ watcher.pc \in {"messages", "tasks"}
  /\ watcher.queue /= <<>>
  /\ faults > 0
  /\ faults' = faults - 1
  /\ LET f == FileById(Head(watcher.queue))
     IN /\ files' = files \ {f}
        /\ errors' = errors \cup {f}
        /\ last' = [file |-> f, fate |-> "errors", sends |-> 0,
                    creates |-> 0]
  /\ watcher' = [watcher EXCEPT !.queue = Tail(@)]
  /\ UNCHANGED <<runnerVars, containerVars, policyVars, toolVars, authVars, schedVars, now, registeredGroups, execVars, nextFile,
                 tasks, sent>>

\* the outer catch block: readdirSync of the group's directory throws, or
\* the move to errors/ throws inside the inner catch block; the files of
\* the directory that are left stay where they are
DirectoryAbandoned ==
  /\ watcher.pc \in {"messages", "tasks"}
  /\ watcher.queue /= <<>>
  /\ faults > 0
  /\ faults' = faults - 1
  /\ watcher' = [watcher EXCEPT !.queue = <<>>]
  /\ last' = [file |-> FileById(Head(watcher.queue)), fate |-> "stays",
              sends |-> 0, creates |-> 0]
  /\ UNCHANGED <<runnerVars, containerVars, policyVars, toolVars, authVars, schedVars, now, registeredGroups, execVars, files, errors,
                 nextFile, tasks, sent>>

\* the steps of processIpcFiles; at most one is enabled at a time
PollStep ==
  \/ PollBegin
  \/ HandleMessageFile
  \/ ListTasks
  \/ HandleTaskFile
  \/ NextGroup
  \/ PollEnd

NextIpcFaulty ==
  \/ AgentWritesRequest
  \/ PollBegin
  \/ HandleMessageFile
  \/ ListTasks
  \/ HandleTaskFile
  \/ NextGroup
  \/ PollEnd
  \/ BaseDirUnreadable
  \/ FileActionThrows
  \/ DirectoryAbandoned

InitIpcFaulty ==
  /\ HostStarted
  /\ registeredGroups = TwoGroups
  /\ faults = MaxFaults
  /\ mount = NoMount
  /\ probe = NoProbe

\* the timer and the awaited calls of a poll always come back, so a step
\* of the poll that can be taken is taken
SpecIpcFaulty ==
  InitIpcFaulty /\ [][NextIpcFaulty]_vars /\ WF_vars(PollStep)

\* the watcher is studied on a host that has loaded a registry of two groups
InitIpc == Init /\ registeredGroups = TwoGroups

SpecIpc == InitIpc /\ [][NextIpc]_vars

\* ------------------------------------------------------- message handling
\* String.prototype.trim on the leading side (the side the pattern reads)
RECURSIVE trim(_)
trim(s) == IF s /= <<>> /\ Head(s) = " " THEN trim(Tail(s)) ELSE s

\* the 'i' flag of TRIGGER_PATTERN
LowerCase(k) == IF k = "Andy" THEN "andy" ELSE k

\* TRIGGER_PATTERN.test(s): new RegExp(`^@?Andy\\\\b`, 'i').  The template
\* literal yields the pattern text ^@?Andy\\b, whose \\ is a literal
\* backslash and whose b is a literal letter b.
TRIGGER_PATTERN(s) ==
  LET t == IF s /= <<>> /\ Head(s) = "@" THEN Tail(s) ELSE s
  IN /\ Len(t) >= 3
     /\ LowerCase(t[1]) = LowerCase(ASSISTANT_NAME)
     /\ t[2] = "\\"
     /\ t[3] = "b"

\* texts of incoming chat messages
Contents ==
  {<<"hello">>, <<"@", "Andy", " ", "hello">>, <<"@", "Andy", "\\", "b">>}

\* what runContainerAgent can resolve to, and Thrown for a rejection
Thrown == [status |-> "thrown", result |-> Absent, newSessionId |-> Absent]
Output(st, r, sid) == [status |-> st, result |-> r, newSessionId |-> sid]
Outputs ==
  {Output("success", "reply", sid) : sid \in {Absent, "s1", "s2"}}
    \cup {Output("success", Absent, "s1"), Output("error", Absent, "s1"),
          Output("error", "reply", "s2"), Thrown}

\* getMessagesSince(chat, '', ASSISTANT_NAME): every stored message of chat
getMessagesSince(chat) == {m.id : m \in {x \in messages : x.chat_jid = chat}}

\* registerGroup(chatId, group)
registerGroup(chatId, group) ==
  [c \in DOMAIN registeredGroups \cup {chatId} |->
     IF c = chatId THEN group ELSE registeredGroups[c]]

\* does processFeishuMessage reach runAgent for a message in this registry?
ReachesRunAgent(groups, chat, content) ==
  /\ chat \in DOMAIN groups
  /\ \/ groups[chat].folder = MAIN_GROUP_FOLDER
     \/ TRIGGER_PATTERN(trim(content))

\* !group && Object.keys(registeredGroups).length === 0
AutoRegisters_AnyNewChat(chat) == chat \notin DOMAIN registeredGroups

AutoRegisters(chat) ==
  chat \notin DOMAIN registeredGroups /\ DOMAIN registeredGroups = {}

\* handleFeishuEvent for a message event, run up to the first suspension:
\* registration, storeMessage, and processFeishuMessage / runAgent as far
\* as `await runContainerAgent(...)`
handleFeishuEvent(chat, content, t) ==
  LET id == nextMsg + 1
      autoRegister == AutoRegisters(chat)
      groups == IF autoRegister
                THEN registerGroup(chat, [name |-> "main", folder |-> "main"])
                ELSE registeredGroups
      stored == [id |-> id, chat_jid |-> chat, content |-> content,
                 timestamp |-> t,
                 invoked |-> ReachesRunAgent(groups, chat, content)]
  IN /\ registeredGroups' = groups
     /\ sent' = IF autoRegister
                THEN Append(sent, [chatId |-> chat, text |-> "welcome",
                                   ok |-> TRUE, via |-> "welcome",
                                   request |-> 0, source |-> Absent])
                ELSE sent
     /\ messages' = IF chat \in DOMAIN groups
                    THEN messages \cup {stored} ELSE messages
     /\ executions' =
          IF ReachesRunAgent(groups, chat, content)
          THEN executions \cup
                 {[id |-> id, folder |-> groups[chat].folder,
                   chatJid |-> chat,
                   sessionId |-> sessions[groups[chat].folder],
                   create_time |-> t,
                   prompt |-> getMessagesSince(chat) \cup {id}]}
          ELSE executions

ReceiveMessage ==
  /\ nextMsg < MaxMsgs
  /\ \E chat \in Chats : \E content \in Contents : \E t \in ClockReadings :
       /\ now' = t
       /\ handleFeishuEvent(chat, content, t)
  /\ nextMsg' = nextMsg + 1
  /\ UNCHANGED <<sessions, lastAgentTimestamp, sessionsFile, lastReturn,
                 ipcVars, runnerVars, containerVars, policyVars, toolVars, authVars, schedVars>>

\* sessions after runAgent has seen the output
SessionsAfter_Always(e, output) ==
  [sessions EXCEPT ![e.folder] = output.newSessionId]

SessionsAfter(e, output) ==
  IF Truthy(output.newSessionId)
  THEN [sessions EXCEPT ![e.folder] = output.newSessionId]
  ELSE sessions

\* what runAgent returns to processFeishuMessage (null is Absent)
RunAgentResult_IgnoresStatus(output) == output.result

RunAgentResult(output) ==
  IF output.status \in {"error", "thrown"} THEN Absent ELSE output.result

\* data/sessions.json after runAgent's saveJson and, when there is a
\* response, processFeishuMessage's saveState
SavedSessions(e, output) ==
  IF Truthy(output.newSessionId) \/ Truthy(RunAgentResult(output))
  THEN SessionsAfter(e, output)
  ELSE sessionsFile

\* runContainerAgent settles: the rest of runAgent and processFeishuMessage
AgentReturns ==
  \E e \in executions : \E output \in Outputs : \E ok \in BOOLEAN :
    LET response == RunAgentResult(output)
    IN /\ executions' = executions \ {e}
       /\ sessions' = SessionsAfter(e, output)
       /\ sessionsFile' = SavedSessions(e, output)
       /\ lastReturn' = [id |-> e.id, folder |-> e.folder,
                         chatJid |-> e.chatJid, output |-> output]
       /\ IF Truthy(response)
          THEN /\ lastAgentTimestamp' =
                    [lastAgentTimestamp EXCEPT ![e.chatJid] = e.create_time]
               /\ sent' = Append(sent, [chatId |-> e.chatJid,
                                        text |-> response, ok |-> ok,
                                        via |-> "reply", request |-> 0,
                                        source |-> Absent])
          ELSE /\ ok
               /\ UNCHANGED <<lastAgentTimestamp, sent>>
       /\ UNCHANGED <<now, registeredGroups, messages, nextMsg, ipcVars,
                      runnerVars, containerVars, policyVars, toolVars, authVars, schedVars>>

NextExec ==
  \/ ReceiveMessage
  \/ AgentReturns

SpecExec == Init /\ [][NextExec]_vars

\* ------------------------------------------ agent runner (in the container)
\* number of tool rounds runAgentWithTools allows (maxIterations)
MaxIterations == 2

OUTPUT_START_MARKER == "---NANOCLAW_OUTPUT_START---"
OUTPUT_END_MARKER == "---NANOCLAW_OUTPUT_END---"
SCHEDULED_TASK_MARKER ==
  "[SCHEDULED TASK - You are running automatically, not in response to a user message.]"

\* what the host can put on the runner's stdin.  isScheduledTask is the JSON
\* literal true or false, or the key is missing (Absent).
ContainerInput(prompt, sessionId, isScheduledTask) ==
  [text |-> "object", prompt |-> prompt, sessionId |-> sessionId,
   isScheduledTask |-> isScheduledTask]
\* text that JSON.parse rejects; the text null; a stream that errors
NotJson == [text |-> "garbage", prompt |-> Absent, sessionId |-> Absent,
            isScheduledTask |-> Absent]
JsonNull == [text |-> "null", prompt |-> Absent, sessionId |-> Absent,
             isScheduledTask |-> Absent]
StdinError == [text |-> "error", prompt |-> Absent, sessionId |-> Absent,
               isScheduledTask |-> Absent]
Stdins ==
  {ContainerInput(p, sid, flag) :
     p \in {"p", "q"}, sid \in {Absent, "s1"},
     flag \in {"true", "false", Absent}}
    \cup {NotJson, JsonNull, StdinError}

\* if (input.isScheduledTask)
IsScheduled(input) == input.isScheduledTask = "true"

\* the first try block of main: readStdin, JSON.parse and the log line that
\* reads input.groupFolder all succeed
InputParses(stdin) == stdin.text = "object"

\* JSON.stringify(output) as one line of text
Json(output) == [line |-> "json", value |-> output]
LogLine(message) == [line |-> "log", value |-> message]
Marker(m) == [line |-> "marker", value |-> m]

\* writeOutput(output): three console.log calls
writeOutput(io, output) ==
  [io EXCEPT !.stdout = @ \o <<Marker(OUTPUT_START_MARKER), Json(output),
                                Marker(OUTPUT_END_MARKER)>>]

\* log(message): console.error
log_OnStdout(io, message) ==
  [io EXCEPT !.stdout = Append(@, LogLine(message))]

log(io, message) == [io EXCEPT !.stderr = Append(@, LogLine(message))]

\* the prompt main hands to runAgentWithTools, as a sequence of pieces
PromptFor_AlwaysMarked(input) == <<SCHEDULED_TASK_MARKER, "\n\n", input.prompt>>

PromptFor(input) ==
  IF IsScheduled(input)
  THEN <<SCHEDULED_TASK_MARKER, "\n\n", input.prompt>>
  ELSE <<input.prompt>>

\* input.sessionId || `session-${Date.now()}`
SessionIdFor(input) ==
  IF Truthy(input.sessionId) THEN input.sessionId ELSE "session-now"

\* the host starts a container and writes the input to its stdin
RunnerSpawn ==
  /\ runner.pc \in {"off", "exited"}
  /\ \E stdin \in Stdins :
       runner' = [NotRunning EXCEPT !.pc = "reading", !.stdin = stdin]
  /\ UNCHANGED <<now, registeredGroups, execVars, ipcVars, sent, schedVars,
                 containerVars, policyVars, toolVars, authVars>>

\* main up to the call of runAgentWithTools
RunnerReadsInput ==
  /\ runner.pc = "reading"
  /\ IF InputParses(runner.stdin)
     THEN runner' =
            [runner EXCEPT
               !.pc = "agent",
               !.prompt = PromptFor(runner.stdin),
               !.sessionId = SessionIdFor(runner.stdin),
               !.io = log(log(@, "Received input"), "Starting Gemini agent")]
     ELSE runner' =
            [runner EXCEPT
               !.pc = "exited",
               !.exitCode = 1,
               !.io = writeOutput(@, [status |-> "error", result |-> Absent,
                                      newSessionId |-> Absent,
                                      error |-> "Failed to parse input"])]
  /\ UNCHANGED <<now, registeredGroups, execVars, ipcVars, sent, schedVars,
                 containerVars, policyVars, toolVars, authVars>>

\* the text returned when the loop runs out of iterations
MaxIterationsText == "Maximum iterations reached. Task may be incomplete."

RunnerToolRound_Unbounded ==
  /\ runner.pc = "agent"
  /\ \E tool \in {"Tool call: bash", "Tool call: write"} :
       runner' = [runner EXCEPT
                    !.iteration = @ + 1,
                    !.io = log(log(@, tool), "Tool result")]
  /\ UNCHANGED <<now, registeredGroups, execVars, ipcVars, sent, schedVars,
                 containerVars, policyVars, toolVars, authVars>>

\* one round of the tool loop: the model asks for tools, they are run
RunnerToolRound ==
  /\ runner.pc = "agent"
  /\ runner.iteration < MaxIterations
  /\ \E tool \in {"Tool call: bash", "Tool call: write"} :
       runner' = [runner EXCEPT
                    !.iteration = @ + 1,
                    !.io = log(log(@, tool), "Tool result")]
  /\ UNCHANGED <<now, registeredGroups, execVars, ipcVars, sent, schedVars,
                 containerVars, policyVars, toolVars, authVars>>

\* runAgentWithTools returns: the text of a round in which the model asked
\* for no tool, or, when the loop has run out, the iteration limit text
RunnerSucceeds ==
  /\ runner.pc = "agent"
  /\ \E result \in (IF runner.iteration < MaxIterations
                     THEN {Absent, "reply"} ELSE {MaxIterationsText}) :
       runner' =
         [runner EXCEPT
            !.pc = "exited",
            !.exitCode = 0,
            !.iteration = IF @ < MaxIterations THEN @ + 1 ELSE @,
            !.answered = runner.iteration < MaxIterations,
            !.io = writeOutput(log(@, "Agent completed successfully"),
                               [status |-> "success", result |-> result,
                                newSessionId |-> runner.sessionId,
                                error |-> Absent])]
  /\ UNCHANGED <<now, registeredGroups, execVars, ipcVars, sent, schedVars,
                 containerVars, policyVars, toolVars, authVars>>

\* runAgentWithTools throws (no API key, a failed request)
RunnerFails ==
  /\ runner.pc = "agent"
  /\ runner' =
       [runner EXCEPT
          !.pc = "exited",
          !.exitCode = 1,
          !.io = writeOutput(log(@, "Agent error"),
                             [status |-> "error", result |-> Absent,
                              newSessionId |-> runner.sessionId,
                              error |-> "message"])]
  /\ UNCHANGED <<now, registeredGroups, execVars, ipcVars, sent, schedVars,
                 containerVars, policyVars, toolVars, authVars>>

NextRunner ==
  \/ RunnerSpawn
  \/ RunnerReadsInput
  \/ RunnerToolRound
  \/ RunnerSucceeds
  \/ RunnerFails

SpecRunner == Init /\ [][NextRunner]_vars

\* --------------------------------------------------------- scheduler loop
\* the largest clock reading of the scheduler's runs
MaxSchedTime == 2

SchedClock == now..MaxSchedTime

\* the schedule_task requests the main group's agent files for the groups
ScheduledRequests ==
  {TaskPayload("schedule_task", "p", "interval", <<"1">>, "alpha"),
   TaskPayload("schedule_task", "p", "interval", <<"2">>, "main"),
   TaskPayload("schedule_task", "p", "once", <<"T1">>, "alpha"),
   TaskPayload("schedule_task", "p", "cron", <<"* * * * *">>, "main")}

\* a schedule_task request of the main group is accepted; the scheduler
\* is studied with at most one task per group
TaskScheduled ==
  /\ \E data \in ScheduledRequests : \E t \in SchedClock :
       /\ \A j \in 1..Len(tasks) : tasks[j].group_folder /= data.groupFolder
       /\ CreatesTask(data, MAIN_GROUP_FOLDER, TRUE, t)
       /\ now' = t
       /\ tasks' = processTaskIpc(data, MAIN_GROUP_FOLDER, TRUE, t, 0)
  /\ UNCHANGED <<registeredGroups, execVars, runnerVars, containerVars, policyVars, toolVars, authVars, files, errors,
                 nextFile, watcher, last, faults, sent, firings>>

\* the task's execution has been started and has not returned
Running(id) ==
  \E k \in 1..Len(firings) :
    firings[k].task = id /\ firings[k].state = "running"

\* the poll's query (status active, nextRun <= now) and the running mark
IsDue_IgnoresRunning(task, t) ==
  /\ task.status = "active"
  /\ task.next_run /= Null
  /\ task.next_run <= t

IsDue(task, t) ==
  /\ task.status = "active"
  /\ task.next_run /= Null
  /\ task.next_run <= t
  /\ ~Running(task.id)

\* the scheduler poll finds task i due: it is marked as running and the
\* runner is invoked with isScheduled = true
TaskFires ==
  /\ \E i \in 1..Len(tasks) : \E t \in SchedClock :
       /\ IsDue(tasks[i], t)
       /\ tasks[i].chat_jid \in DOMAIN registeredGroups
       /\ now' = t
       /\ firings' = Append(firings,
                            [task |-> i, due |-> tasks[i].next_run,
                             at |-> t, state |-> "running",
                             result |-> Absent])
  /\ UNCHANGED <<registeredGroups, execVars, runnerVars, containerVars, policyVars, toolVars, authVars, files, errors,
                 nextFile, watcher, last, faults, sent, tasks>>

\* the interval or cron value still parses when nextRun is recomputed
Recomputable(task) ==
  IF task.schedule_type = "cron" THEN CronParses(task.schedule_value)
  ELSE IF task.schedule_type = "interval"
  THEN ~IntervalRejected(parseInt(task.schedule_value))
  ELSE TRUE

\* nextRun after a firing that ended when the clock read t
NextRunAfter_FromNow(task, t) ==
  IF ~Recomputable(task) THEN Null
  ELSE IF task.schedule_type = "cron" THEN CronNext(task.next_run)
  ELSE IF task.schedule_type = "interval"
  THEN t + parseInt(task.schedule_value)
  ELSE Null

NextRunAfter(task, t) ==
  IF ~Recomputable(task) THEN Null
  ELSE IF task.schedule_type = "cron" THEN CronNext(task.next_run)
  ELSE IF task.schedule_type = "interval"
  THEN task.next_run + parseInt(task.schedule_value)
  ELSE Null

\* status after a firing: once tasks end, recurring tasks loop, a value
\* that no longer parses pauses the task; cancelled is final
StatusAfter_OnceStaysActive(task) ==
  IF task.status = "cancelled" THEN "cancelled"
  ELSE IF ~Recomputable(task) THEN "paused"
  ELSE task.status

StatusAfter(task) ==
  IF task.status = "cancelled" THEN "cancelled"
  ELSE IF task.schedule_type = "once" THEN "completed"
  ELSE IF ~Recomputable(task) THEN "paused"
  ELSE task.status

\* the runner returns for a firing: lastRun / lastResult are recorded and
\* the task's nextRun and status are rewritten
TaskRunReturns ==
  /\ \E k \in 1..Len(firings) : \E result \in {"success", "error"} :
       \E t \in SchedClock :
         LET i == firings[k].task
         IN /\ firings[k].state = "running"
            /\ now' = t
            /\ firings' = [firings EXCEPT ![k].state = "done",
                                          ![k].result = result]
            /\ tasks' = [tasks EXCEPT
                           ![i] = [@ EXCEPT
                                     !.next_run = NextRunAfter(tasks[i], t),
                                     !.status = StatusAfter(tasks[i])]]
  /\ UNCHANGED <<registeredGroups, execVars, runnerVars, containerVars, policyVars, toolVars, authVars, files, errors,
                 nextFile, watcher, last, faults, sent>>

\* any state -> cancelled
TaskCancelled ==
  /\ \E i \in 1..Len(tasks) :
       /\ tasks[i].status /= "cancelled"
       /\ tasks' = [tasks EXCEPT ![i].status = "cancelled"]
  /\ UNCHANGED <<now, registeredGroups, execVars, runnerVars, containerVars, policyVars, toolVars, authVars, files, errors,
                 nextFile, watcher, last, faults, sent, firings>>

NextSched ==
  \/ TaskScheduled
  \/ TaskFires
  \/ TaskRunReturns
  \/ TaskCancelled

InitSched == Init /\ registeredGroups = TwoGroups

SpecSched == InitSched /\ [][NextSched]_vars

\* ---- tasks whose group was deregistered
\* the main group's agent schedules a task for the group alpha
AlphaTaskScheduled ==
  /\ \E data \in ScheduledRequests : \E t \in SchedClock :
       /\ data.groupFolder = "alpha"
       /\ tasks = <<>>
       /\ CreatesTask(data, MAIN_GROUP_FOLDER, TRUE, t)
       /\ now' = t
       /\ tasks' = processTaskIpc(data, MAIN_GROUP_FOLDER, TRUE, t, 0)
  /\ UNCHANGED <<registeredGroups, execVars, runnerVars, containerVars,
                 policyVars, toolVars, authVars, files, errors, nextFile, watcher, last, faults,
                 sent, firings>>

\* a task whose chat target is no longer registered keeps its status
StatusAfterSkip_Paused(task) == "paused"

StatusAfterSkip(task) == task.status

\* the poll has already skipped the task at clock reading t
Skipped(id, t) ==
  \E k \in 1..Len(firings) :
    firings[k].task = id /\ firings[k].state = "skipped" /\ firings[k].at = t

\* the scheduler poll finds task i due, but its chat target is not in the
\* registry: the firing is skipped and logged
TaskSkipped ==
  /\ \E i \in 1..Len(tasks) : \E t \in SchedClock :
       /\ IsDue(tasks[i], t)
       /\ tasks[i].chat_jid \notin DOMAIN registeredGroups
       /\ ~Skipped(i, t)
       /\ now' = t
       /\ firings' = Append(firings,
                            [task |-> i, due |-> tasks[i].next_run,
                             at |-> t, state |-> "skipped",
                             result |-> Absent])
       /\ tasks' = [tasks EXCEPT ![i].status = StatusAfterSkip(tasks[i])]
  /\ UNCHANGED <<registeredGroups, execVars, runnerVars, containerVars,
                 policyVars, toolVars, authVars, files, errors, nextFile, watcher, last, faults,
                 sent>>

\* a group is removed from the registry
GroupDeregistered ==
  /\ \E c \in DOMAIN registeredGroups :
       registeredGroups' =
         [d \in DOMAIN registeredGroups \ {c} |-> registeredGroups[d]]
  /\ UNCHANGED <<now, execVars, runnerVars, containerVars, policyVars, toolVars, authVars,
                 ipcVars, sent, schedVars>>

\* a group that was removed is registered again for the same chat
GroupReregistered ==
  /\ \E c \in DOMAIN TwoGroups \ DOMAIN registeredGroups :
       registeredGroups' =
         [d \in DOMAIN registeredGroups \cup {c} |-> TwoGroups[d]]
  /\ UNCHANGED <<now, execVars, runnerVars, containerVars, policyVars, toolVars, authVars,
                 ipcVars, sent, schedVars>>

NextSchedRegistry ==
  \/ AlphaTaskScheduled
  \/ TaskFires
  \/ TaskSkipped
  \/ TaskRunReturns
  \/ GroupDeregistered
  \/ GroupReregistered

SpecSchedRegistry == InitSched /\ [][NextSchedRegistry]_vars

\* ---- task control requests
TaskControls == {"pause_task", "resume_task", "cancel_task"}

\* an agent drops a task control request for task 1 into its tasks directory
AgentWritesControl ==
  /\ nextFile < MaxFiles
  /\ \E i \in 1..Len(IpcDirs) : \E type \in TaskControls :
       files' = files \cup
                  {File(nextFile + 1, IpcDirs[i], "tasks",
                        TaskControlPayload(type, 1), FALSE)}
  /\ nextFile' = nextFile + 1
  /\ UNCHANGED <<faults, runnerVars, containerVars, policyVars, toolVars, authVars, schedVars,
                 now, registeredGroups, execVars, errors, watcher, tasks,
                 sent, last>>

\* the watcher with a task of alpha in the store and control requests in
\* the tasks directories (there are no message files)
NextTaskControl ==
  \/ AlphaTaskScheduled
  \/ AgentWritesControl
  \/ PollBegin
  \/ ListTasks
  \/ HandleTaskFile
  \/ NextGroup
  \/ PollEnd

SpecTaskControl == InitIpc /\ [][NextTaskControl]_vars

\* ---- mcp__nanoclaw__schedule_task in the container
\* createIpcMcp(options): the group the container runs for
ToolOptions ==
  {[groupFolder |-> MAIN_GROUP_FOLDER, isMain |-> TRUE],
   [groupFolder |-> "alpha", isMain |-> FALSE]}
\* args.schedule_type / args.schedule_value the agent passes
ToolSchedules == {<<"cron", <<"* * * * *">>>>, <<"interval", <<"2">>>>}

\* const targetGroup = args.groupFolder || options.groupFolder
TargetGroup(options, groupFolderArg) ==
  IF Truthy(groupFolderArg) THEN groupFolderArg ELSE options.groupFolder

ToolDenies_Never(options, groupFolderArg) == FALSE

\* !options.isMain && targetGroup !== options.groupFolder
ToolDenies(options, groupFolderArg) ==
  ~options.isMain /\ TargetGroup(options, groupFolderArg) /= options.groupFolder

\* one call of the tool: a permission error, or a request file in the
\* group's tasks directory
ToolScheduleTask ==
  /\ \E options \in ToolOptions :
       \E groupFolderArg \in {Absent} \cup GroupFolderValues :
         \E s \in ToolSchedules :
           IF ToolDenies(options, groupFolderArg)
           THEN /\ toolCall' = [groupFolder |-> options.groupFolder,
                                isMain |-> options.isMain,
                                target |-> groupFolderArg,
                                isError |-> TRUE, file |-> 0]
                /\ UNCHANGED <<files, nextFile>>
           ELSE /\ nextFile < MaxFiles
                /\ toolCall' = [groupFolder |-> options.groupFolder,
                                isMain |-> options.isMain,
                                target |-> groupFolderArg,
                                isError |-> FALSE, file |-> nextFile + 1]
                /\ files' = files \cup
                     {File(nextFile + 1, options.groupFolder, "tasks",
                           TaskPayload("schedule_task", "p", s[1], s[2],
                                       TargetGroup(options, groupFolderArg)),
                           TRUE)}
                /\ nextFile' = nextFile + 1
  /\ UNCHANGED <<faults, runnerVars, containerVars, policyVars, schedVars,
                 now, registeredGroups, execVars, errors, watcher, tasks,
                 sent, last, authVars>>

\* the tools of the IPC MCP server
NextTool ==
  \/ ToolSendMessage
  \/ ToolScheduleTask

SpecTool == InitIpc /\ [][NextTool]_vars

\* ---- the authorization rules put to pairs of requests
\* a registry with two non-main groups
ThreeGroups ==
  [c \in Chats |->
     IF c = "c1" THEN [name |-> "main", folder |-> "main"]
     ELSE IF c = "c2" THEN [name |-> "alpha", folder |-> "alpha"]
     ELSE [name |-> "beta", folder |-> "beta"]]

\* the group directories under data/ipc
AuthDirs == {"main", "alpha", "beta"}

\* request payloads that differ in the target and in the other fields
AuthPayloads ==
  {Payload("message", c, Absent, text, Absent, Absent, <<>>, g) :
     c \in Chats, text \in {"hi", "yo"}, g \in {Absent, MAIN_GROUP_FOLDER}}
    \cup {Payload("schedule_task", c, Absent, Absent, "p", "interval",
                  <<"2">>, g) :
            c \in {Absent, "c1"}, g \in GroupFolderValues}

Probes ==
  {[dir |-> <<d1, d2>>, data |-> <<p1, p2>>, judged |-> FALSE,
    verdict |-> <<FALSE, FALSE>>] :
     d1 \in AuthDirs, d2 \in AuthDirs, p1 \in AuthPayloads,
     p2 \in AuthPayloads}

\* the authorization test processIpcFiles / processTaskIpc applies to the
\* request data found in the directory of sourceGroup
Authorized_TrustsPayload(data, sourceGroup) ==
  LET isMain == sourceGroup = MAIN_GROUP_FOLDER
                  \/ data.groupFolder = MAIN_GROUP_FOLDER
  IN IF data.type = "message"
     THEN MessageAuthorized(data, sourceGroup, isMain)
     ELSE ScheduleAuthorized(data.groupFolder, sourceGroup, isMain)

Authorized(data, sourceGroup) ==
  LET isMain == sourceGroup = MAIN_GROUP_FOLDER
  IN IF data.type = "message"
     THEN MessageAuthorized(data, sourceGroup, isMain)
     ELSE ScheduleAuthorized(data.groupFolder, sourceGroup, isMain)

\* both requests of the pair are judged
RequestsJudged ==
  /\ ~probe.judged
  /\ probe' = [probe EXCEPT
                 !.judged = TRUE,
                 !.verdict = <<Authorized(probe.data[1], probe.dir[1]),
                               Authorized(probe.data[2], probe.dir[2])>>]
  /\ UNCHANGED <<now, registeredGroups, execVars, ipcVars, sent, runnerVars,
                 schedVars, containerVars, policyVars, toolVars>>

NextAuth == RequestsJudged

InitAuth ==
  /\ HostState
  /\ registeredGroups = ThreeGroups
  /\ faults = 0
  /\ mount = NoMount
  /\ probe \in Probes

SpecAuth == InitAuth /\ [][NextAuth]_vars

\* ------------------------------------------- execution runner (on the host)
\* run(ExecutionRequest, timeoutMs, maxOutputBytes): the wall-clock timeout,
\* in clock ticks
TimeoutTicks == 2
\* the most lines of standard output one execution writes
MaxOutputLines == 3

\* what an execution can write on a line of its standard output
OutputLines == {"noise", OUTPUT_START_MARKER, "json", OUTPUT_END_MARKER}
ExitCodes == {0, 1}
ExecutionRequests == {"r1", "r2"}

ExecutionResult(status, output, errorMessage) ==
  [status |-> status, output |-> output, errorMessage |-> errorMessage]

\* the structured result sits between the two marker lines
Framed(captured) ==
  \E i \in 1..Len(captured) :
    /\ i + 2 <= Len(captured)
    /\ captured[i] = OUTPUT_START_MARKER
    /\ captured[i + 1] = "json"
    /\ captured[i + 2] = OUTPUT_END_MARKER

\* the result of an execution that ended by itself
ExitResult(code, captured) ==
  IF code /= 0 THEN ExecutionResult("error", Absent, "exit")
  ELSE IF ~Framed(captured) THEN ExecutionResult("error", Absent, "framing")
  ELSE ExecutionResult("success", "json", Absent)

TimeoutResult_KeepsOutput(captured) ==
  IF Framed(captured) THEN ExecutionResult("error", "json", "timeout")
  ELSE ExecutionResult("error", Absent, "timeout")
\* the result of an execution that was terminated on expiry of the timeout:
\* partial output is discarded
TimeoutResult(captured) == ExecutionResult("error", Absent, "timeout")

\* the caller (message handler or scheduler) calls run()
RunCalled ==
  /\ run.pc \in {"idle", "returned"}
  /\ \E r \in ExecutionRequests :
       run' = [NoRun EXCEPT !.pc = "running", !.request = r, !.starts = 1]
  /\ UNCHANGED <<now, registeredGroups, execVars, ipcVars, sent, runnerVars,
                 schedVars, policyVars, toolVars, authVars>>

\* the execution writes a line on its standard output
ExecutionWrites ==
  /\ run.pc = "running"
  /\ Len(run.captured) < MaxOutputLines
  /\ \E line \in OutputLines :
       run' = [run EXCEPT !.captured = Append(@, line)]
  /\ UNCHANGED <<now, registeredGroups, execVars, ipcVars, sent, runnerVars,
                 schedVars, policyVars, toolVars, authVars>>

\* wall-clock time passes while the runner waits
RunClockTicks ==
  /\ run.pc = "running"
  /\ run.elapsed < TimeoutTicks
  /\ run' = [run EXCEPT !.elapsed = @ + 1]
  /\ UNCHANGED <<now, registeredGroups, execVars, ipcVars, sent, runnerVars,
                 schedVars, policyVars, toolVars, authVars>>

\* the execution ends by itself before the timeout expires
ExecutionExits ==
  /\ run.pc = "running"
  /\ run.elapsed < TimeoutTicks
  /\ \E code \in ExitCodes :
       run' = [run EXCEPT !.pc = "returned",
                          !.result = ExitResult(code, run.captured)]
  /\ UNCHANGED <<now, registeredGroups, execVars, ipcVars, sent, runnerVars,
                 schedVars, policyVars, toolVars, authVars>>

\* the timeout expires: the execution is terminated, never started again
TimeoutExpires ==
  /\ run.pc = "running"
  /\ run.elapsed = TimeoutTicks
  /\ run' = [run EXCEPT !.pc = "returned",
                        !.kills = @ + 1,
                        !.result = TimeoutResult(run.captured)]
  /\ UNCHANGED <<now, registeredGroups, execVars, ipcVars, sent, runnerVars,
                 schedVars, policyVars, toolVars, authVars>>

NextContainer ==
  \/ RunCalled
  \/ ExecutionWrites
  \/ RunClockTicks
  \/ ExecutionExits
  \/ TimeoutExpires

SpecContainer == Init /\ [][NextContainer]_vars

\* ------------------------------------------------------------- mount policy
\* the most segments of a requested path
MaxPathLen == 3

\* a path is the sequence of its segments; "link" is a symbolic link
Segments == {"workspace", "..", "etc", ".ssh", "link"}
SymlinkTarget == <<".ssh">>
\* the fixed blocklist of sensitive names
SensitiveNames == {".ssh"}
\* MountRule: an allowed root and its readOnly flag
AllowRules == {[root |-> <<"workspace">>, readOnly |-> FALSE],
               [root |-> <<"etc">>, readOnly |-> TRUE]}
RequestedPaths == UNION {[1..n -> Segments] : n \in 1..MaxPathLen}

Denied == [verdict |-> "Denied", hostPath |-> <<>>, readOnly |-> TRUE]
Approved(hostPath, readOnly) ==
  [verdict |-> "Approved", hostPath |-> hostPath, readOnly |-> readOnly]

HasTraversal(path) == \E i \in 1..Len(path) : path[i] = ".."

IsPrefix(root, path) ==
  /\ Len(root) <= Len(path)
  /\ \A i \in 1..Len(root) : path[i] = root[i]

\* the real target of a path: a symbolic link is replaced by its target
RECURSIVE RealPath(_)
RealPath(path) ==
  IF path = <<>> THEN <<>>
  ELSE LET init == RealPath(SubSeq(path, 1, Len(path) - 1))
           seg == path[Len(path)]
       IN IF seg = "link" THEN SymlinkTarget ELSE Append(init, seg)

IsSensitive(path) == \E i \in 1..Len(path) : path[i] \in SensitiveNames

Matching(rules, path) == {r \in rules : IsPrefix(r.root, path)}

resolve_RuleFirst(groupFolder, requestedPath, rules) ==
  LET real == RealPath(requestedPath)
      raw == Matching(rules, requestedPath)
      hit == Matching(rules, real)
  IN IF raw /= {}
       THEN Approved(real, groupFolder /= MAIN_GROUP_FOLDER
                             \/ \E r \in raw : r.readOnly)
     ELSE IF HasTraversal(requestedPath) \/ IsSensitive(real) \/ hit = {}
       THEN Denied
     ELSE Approved(real, groupFolder /= MAIN_GROUP_FOLDER
                           \/ \E r \in hit : r.readOnly)
\* resolve(groupFolder, requestedPath) -> {hostPath, readOnly} | Denied
resolve(groupFolder, requestedPath, rules) ==
  LET real == RealPath(requestedPath)
      hit == Matching(rules, real)
  IN IF HasTraversal(requestedPath) THEN Denied
     ELSE IF IsSensitive(real) THEN Denied
     ELSE IF hit = {} THEN Denied
     ELSE Approved(real, groupFolder /= MAIN_GROUP_FOLDER
                           \/ \E r \in hit : r.readOnly)

Undecided == [verdict |-> "undecided", hostPath |-> <<>>, readOnly |-> TRUE]
\* the mounts of a group's execution that can be put to the policy
MountRequests ==
  {[group |-> g, path |-> path, rules |-> rules, decision |-> Undecided] :
     g \in {MAIN_GROUP_FOLDER, "alpha"}, path \in RequestedPaths,
     rules \in SUBSET AllowRules}

\* the policy decides the mount request
MountResolved ==
  /\ mount.decision = Undecided
  /\ mount' = [mount EXCEPT
                 !.decision = resolve(mount.group, mount.path, mount.rules)]
  /\ UNCHANGED <<now, registeredGroups, execVars, ipcVars, sent, runnerVars,
                 schedVars, containerVars, toolVars, authVars>>

NextMount == MountResolved

InitMount ==
  HostStarted /\ faults = 0 /\ mount \in MountRequests /\ probe = NoProbe

SpecMount == InitMount /\ [][NextMount]_vars

Next ==
  \/ NextIpc \/ NextIpcFaulty \/ NextExec \/ NextRunner \/ NextSched
  \/ NextContainer \/ NextMount \/ NextSchedRegistry \/ NextTaskControl
  \/ NextTool \/ NextAuth

Spec == Init /\ [][Next]_vars

\* ================================================================ claims
\* the request handled last in the current poll, and what it asked for
Handled == last.fate /= "none"
HandledMessage == Handled /\ last.file.kind = "messages"
HandledTask == Handled /\ last.file.kind = "tasks"
FromNonMain == last.file.dir /= MAIN_GROUP_FOLDER
\* a complete send_message request (type, target chat and text present)
CompleteMessage(data) ==
  data.json /\ data.type = "message" /\ data.chatJid /= Absent
    /\ data.text /= Absent
\* the chat is registered to the folder
OwnChat(chat, folder) ==
  chat \in DOMAIN registeredGroups /\ registeredGroups[chat].folder = folder
\* number of actions (sends, task creations) performed for request file id
ActionsFor(id) ==
  Cardinality({i \in 1..Len(sent) : sent[i].request = id})
    + Cardinality({i \in 1..Len(tasks) : tasks[i].request = id})

\* C1: at any time at most one agent execution is in flight for a group
\* folder; a second trigger for the same group does not start an execution
\* while the first has not returned.
C1_AtMostOneExecutionPerGroup ==
  \A e1 \in executions : \A e2 \in executions :
    e1.folder = e2.folder => e1 = e2

\* C2: every sendMessage call made for a request file found in the
\* directory of a non-main group G targets a chat that is registered with
\* folder G, and a request from G for any other chat causes no call.
C2_NonMainSendsOnlyToOwnChat ==
  /\ \A i \in 1..Len(sent) :
       (sent[i].via = "ipc" /\ sent[i].source /= MAIN_GROUP_FOLDER)
         => OwnChat(sent[i].chatId, sent[i].source)
  /\ (HandledMessage /\ FromNonMain
        /\ ~OwnChat(last.file.data.chatJid, last.file.dir))
       => last.sends = 0

\* C2 witness: a non-main request for its own chat was sent, and the latest
\* handled request was one from a non-main group for a foreign chat.
C2_Witness ==
  /\ \E i \in 1..Len(sent) :
       sent[i].via = "ipc" /\ sent[i].source /= MAIN_GROUP_FOLDER
  /\ HandledMessage /\ FromNonMain /\ CompleteMessage(last.file.data)
  /\ ~OwnChat(last.file.data.chatJid, last.file.dir)

\* C3: a send_message request of a non-main group for a chat other than its
\* own is, once handled, in the errors area (moved, not deleted).
C3_UnauthorizedMessageKept ==
  (HandledMessage /\ FromNonMain /\ CompleteMessage(last.file.data)
     /\ ~OwnChat(last.file.data.chatJid, last.file.dir))
    => (last.fate = "errors" /\ last.file \in errors)

\* C4: a schedule_task request found in the directory of a non-main group G
\* whose groupFolder names another group creates no task; every task that
\* came from a non-main directory is a task of that directory's group.
C4_NoTaskForOtherGroup ==
  /\ (HandledTask /\ FromNonMain /\ last.file.data.type = "schedule_task"
        /\ last.file.data.groupFolder /= Absent
        /\ last.file.data.groupFolder /= last.file.dir)
       => last.creates = 0
  /\ \A i \in 1..Len(tasks) :
       tasks[i].source /= MAIN_GROUP_FOLDER
         => tasks[i].group_folder = tasks[i].source

\* C4 witness: the latest handled request was a complete schedule_task of a
\* non-main group naming another group, and a task of a non-main group's
\* own exists.
C4_Witness ==
  /\ HandledTask /\ FromNonMain /\ last.file.data.type = "schedule_task"
  /\ last.file.data.groupFolder \in GroupFolderValues \ {last.file.dir}
  /\ last.file.data.prompt /= Absent
  /\ \E i \in 1..Len(tasks) : tasks[i].source /= MAIN_GROUP_FOLDER

\* a string that is a positive integer number: digits only, value above 0
IsPositiveInteger(s) ==
  /\ s /= <<>>
  /\ \A i \in 1..Len(s) : s[i] \in Digits
  /\ ReadDigits(s, 0) > 0

\* C5: a schedule_task request whose value does not parse for its kind (a
\* cron expression that does not parse, an interval that is not a positive
\* integer number of milliseconds) creates no task.
C5_InvalidScheduleRejected ==
  (HandledTask /\ last.file.data.type = "schedule_task"
     /\ \/ /\ last.file.data.schedule_type = "cron"
           /\ ~CronParses(last.file.data.schedule_value)
        \/ /\ last.file.data.schedule_type = "interval"
           /\ ~IsPositiveInteger(last.file.data.schedule_value))
    => last.creates = 0

\* C6: a task of kind once exists only if its timestamp parsed and lay in
\* the future when the request was processed.
C6_OnceOnlyInFuture ==
  \A i \in 1..Len(tasks) :
    tasks[i].schedule_type = "once"
      => /\ ~isNaN(DateParse(tasks[i].schedule_value))
         /\ DateParse(tasks[i].schedule_value) > tasks[i].created_at

\* C7: every task with a non-terminal status has a non-null next_run.
C7_ActiveTaskHasNextRun ==
  \A i \in 1..Len(tasks) :
    tasks[i].status \in {"active", "paused"} => tasks[i].next_run /= Null

C9_RejectedKept ==
  Handled => ((last.fate = "deleted") = (last.sends + last.creates > 0))

\* C10: a request queued by the send_message tool for the issuing group's
\* own chat is, once the watcher has handled the file, delivered by one
\* sendMessage call to that chat.
C10_ToolMessageDelivered ==
  (HandledMessage /\ last.file.tool)
    => /\ last.sends = 1
       /\ \E i \in 1..Len(sent) :
            /\ sent[i].request = last.file.id
            /\ OwnChat(sent[i].chatId, last.file.dir)

\* the execution that settled last, and whether it failed
Settled == lastReturn.id /= 0
Failed(output) == output.status \in {"error", "thrown"}

\* C11: a group's session token changes only in the step in which an
\* execution of that group settles with a newSessionId, and becomes that
\* value; data/sessions.json equals the in-memory map in every state
\* between handler steps.
C11_SessionFrame ==
  /\ [](sessionsFile = sessions)
  /\ [][\A g \in GroupFolderValues :
          sessions'[g] /= sessions[g] =>
            /\ \E e \in executions \ executions' :
                 e.folder = g /\ lastReturn'.id = e.id
            /\ Truthy(lastReturn'.output.newSessionId)
            /\ sessions'[g] = lastReturn'.output.newSessionId]_vars
\* an execution of alpha has handed back s2 after the token was s1
C11_Witness ==
  /\ Settled /\ lastReturn.folder = "alpha"
  /\ lastReturn.output.newSessionId = "s2"
  /\ sessions["alpha"] = "s2" /\ sessionsFile["alpha"] = "s2"
  /\ sessions["main"] = "s1"

\* C12: in the step in which a message-triggered execution fails (the
\* runner resolves with status error, or rejects), no message is sent and
\* no last-agent timestamp changes.
C12_FailureIsSilent ==
  [][lastReturn'.id /= lastReturn.id /\ Failed(lastReturn'.output) =>
       sent' = sent /\ lastAgentTimestamp' = lastAgentTimestamp]_vars
\* a failed execution that carried a result text, and nothing was sent
C12_Witness ==
  /\ Settled /\ lastReturn.output.status = "error"
  /\ lastReturn.output.result = "reply"
  /\ \A i \in 1..Len(sent) : sent[i].via /= "reply"
  /\ lastAgentTimestamp[lastReturn.chatJid] = Null

\* stdout holds one result block and nothing else
ResultBlock(out) ==
  /\ Len(out) = 3
  /\ out[1].line = "marker" /\ out[1].value = OUTPUT_START_MARKER
  /\ out[2].line = "json" /\ out[2].value.status \in {"success", "error"}
  /\ out[3].line = "marker" /\ out[3].value = OUTPUT_END_MARKER

\* C13: a runner that has exited, on any path, has written exactly one
\* result block (start marker, one JSON object of status success or error,
\* end marker) to stdout; before that stdout is empty; what the runner
\* logs is on stderr.
C13_OneResultBlock ==
  /\ runner.pc = "exited" => ResultBlock(runner.io.stdout)
  /\ runner.pc /= "exited" => runner.io.stdout = <<>>
  /\ runner.pc = "agent" =>
       Len(runner.io.stderr) = 2 + 2 * runner.iteration
  /\ \A i \in 1..Len(runner.io.stderr) : runner.io.stderr[i].line = "log"
\* the agent threw after one tool round and the runner has exited
C13_Witness ==
  /\ runner.pc = "exited" /\ runner.exitCode = 1 /\ runner.iteration = 1
  /\ runner.io.stdout[2].value.status = "error"
  /\ Len(runner.io.stderr) = 5

\* C14: the prompt handed to the agent is the request's prompt behind the
\* scheduled-task marker when the request is a scheduled task, and the
\* request's prompt alone otherwise.
C14_ScheduledPrefix ==
  runner.pc = "agent" =>
    /\ runner.prompt[Len(runner.prompt)] = runner.stdin.prompt
    /\ (runner.prompt[1] = SCHEDULED_TASK_MARKER)
         <=> (runner.stdin.isScheduledTask = "true")
    /\ runner.stdin.isScheduledTask /= "true" =>
         runner.prompt = <<runner.stdin.prompt>>
\* a scheduled request whose prompt q reached the agent behind the marker
C14_Witness ==
  /\ runner.pc = "agent" /\ runner.stdin.isScheduledTask = "true"
  /\ runner.prompt = <<SCHEDULED_TASK_MARKER, "\n\n", "q">>

\* the trigger as the documentation states it: an optional @, the assistant
\* name in any case, then a word boundary (end of text or a non-word piece)
WordPiece(k) == k \notin {" ", "@", "\\"}
BeginsWithTriggerWord(s) ==
  LET t == IF s /= <<>> /\ Head(s) = "@" THEN Tail(s) ELSE s
  IN /\ t /= <<>>
     /\ LowerCase(t[1]) = LowerCase(ASSISTANT_NAME)
     /\ (Len(t) = 1 \/ ~WordPiece(t[2]))

\* C16: a stored message of a registered non-main group has invoked the
\* agent exactly when its trimmed content begins with the trigger word;
\* a stored message of the main group has always invoked the agent.
C16_TriggerInvokes ==
  \A m \in messages :
    IF registeredGroups[m.chat_jid].folder = MAIN_GROUP_FOLDER
    THEN m.invoked
    ELSE m.invoked <=> BeginsWithTriggerWord(trim(m.content))

\* C17: a step stores a message or starts an execution only for a chat that
\* was registered before the step, or when the registry was empty before
\* the step; the registry changes only from empty, to the one chat of the
\* message being handled, registered as main, stored and processed.
C17_UnregisteredIgnored ==
  [][
     /\ \A m \in messages' \ messages :
          (m.chat_jid \in DOMAIN registeredGroups
             \/ DOMAIN registeredGroups = {})
     /\ \A e \in executions' \ executions :
          (e.chatJid \in DOMAIN registeredGroups
             \/ DOMAIN registeredGroups = {})
     /\ registeredGroups' /= registeredGroups =>
          /\ DOMAIN registeredGroups = {}
          /\ \E c \in Chats :
               /\ DOMAIN registeredGroups' = {c}
               /\ registeredGroups'[c].folder = MAIN_GROUP_FOLDER
               /\ \E m \in messages' \ messages : m.chat_jid = c
               /\ \E e \in executions' \ executions : e.chatJid = c
  ]_vars
\* two messages have arrived from the unregistered chat c3 of a host with
\* two registered groups, and nothing was stored or started
C17_Witness ==
  /\ nextMsg = 2 /\ DOMAIN registeredGroups = {"c1", "c2"}
  /\ messages = {} /\ executions = {} /\ ~Settled

\* request file number id sits in an inbound directory
Inbound(id) == \E f \in files : f.id = id

\* C15: the poll loop never stops, whatever errors a poll meets: the
\* watcher is idle (timer armed) again and again and polling again and
\* again, and a request file that sits in an inbound directory is reached
\* by the loop over its directory in the same or a later poll.
C15_PollLoopNeverStops ==
  /\ []<>(watcher.pc = "idle")
  /\ []<>(watcher.pc /= "idle")
  /\ \A id \in 1..MaxFiles : Inbound(id) ~> (last.file.id = id)
\* a poll met an unreadable directory, left a request file where it was,
\* and a later poll is handling files again
C15_Witness ==
  /\ faults = 0 /\ files /= {}
  /\ watcher.pc = "tasks" /\ last.fate = "deleted"
  /\ \E f \in files : f.id < last.file.id /\ f.dir = last.file.dir
                          /\ f.kind = "messages"

\* the firings of task id, and those that have returned
FiringsOf(id) == {k \in 1..Len(firings) : firings[k].task = id}
DoneFiringsOf(id) == {k \in FiringsOf(id) : firings[k].state = "done"}

\* C18: whenever the nextRun of an interval task changes, it becomes the
\* previous nextRun plus the interval, whatever the clock reads, and an
\* active task stays active in that step.
C18_IntervalFixedCadence ==
  [][\A i \in 1..Len(tasks) :
       (tasks[i].schedule_type = "interval"
          /\ tasks'[i].next_run /= tasks[i].next_run) =>
         /\ tasks'[i].next_run
              = tasks[i].next_run + parseInt(tasks[i].schedule_value)
         /\ tasks[i].status = "active" => tasks'[i].status = "active"]_vars
\* the interval task of alpha, due at 1, was fired late, at 2: its nextRun
\* is 2 and it is active
C18_Witness ==
  \E k \in 1..Len(firings) :
    /\ firings[k].state = "done" /\ firings[k].due = 1 /\ firings[k].at = 2
    /\ tasks[firings[k].task].schedule_type = "interval"
    /\ tasks[firings[k].task].next_run = 2
    /\ tasks[firings[k].task].status = "active"

\* C19: a once task is fired at most once, and once that firing has
\* returned the task is terminal (completed or cancelled) with no next
\* run, in that state and in every later one.
C19_OnceFiresOnce ==
  \A i \in 1..Len(tasks) :
    tasks[i].schedule_type = "once" =>
      /\ Cardinality(FiringsOf(i)) <= 1
      /\ DoneFiringsOf(i) /= {} =>
           /\ tasks[i].status \in {"completed", "cancelled"}
           /\ tasks[i].next_run = Null
\* a once task that has fired and returned, long after its due time
C19_Witness ==
  \E i \in 1..Len(tasks) :
    /\ tasks[i].schedule_type = "once"
    /\ DoneFiringsOf(i) /= {}
    /\ tasks[i].status = "completed"
    /\ now = MaxSchedTime

\* C20: no task has two firings for the same due time, and no task has
\* two executions running at once.
C20_NoDoubleFiring ==
  \A j, k \in 1..Len(firings) :
    (j /= k /\ firings[j].task = firings[k].task) =>
      /\ firings[j].due /= firings[k].due
      /\ ~(firings[j].state = "running" /\ firings[k].state = "running")
\* a task whose execution is still running while a later poll has fired
\* the other task
C20_Witness ==
  \E k \in 1..Len(firings) :
    /\ firings[k].state = "running"
    /\ k < Len(firings) /\ firings[k].at < firings[Len(firings)].at
    /\ tasks[firings[k].task].status = "active"
    /\ tasks[firings[k].task].next_run <= now

\* C21: an execution that runs for longer than the timeout is forcibly
\* terminated and its result is an error whose message is "timeout"; nothing
\* the execution wrote before the timeout is returned, and the execution is
\* not started again.
C21_TimeoutResult ==
  (run.pc = "returned" /\ run.elapsed = TimeoutTicks)
    => /\ run.kills = 1
       /\ run.starts = 1
       /\ run.result = [status |-> "error", output |-> Absent,
                        errorMessage |-> "timeout"]

\* an execution that had written a complete result block was terminated
C21_Witness ==
  /\ run.pc = "returned"
  /\ run.elapsed = TimeoutTicks
  /\ Framed(run.captured)
  /\ run.result.errorMessage = "timeout"

\* C22: every mount request whose path contains a parent-directory traversal
\* segment is Denied, whatever allow rules match it, also when the path
\* begins with an allowed mount root.
C22_TraversalDenied ==
  (HasTraversal(mount.path) /\ mount.decision /= Undecided)
    => mount.decision = Denied

\* /workspace/../etc was requested while /workspace and /etc are allowed
C22_Witness ==
  /\ mount.path = <<"workspace", "..", "etc">>
  /\ mount.rules = AllowRules
  /\ mount.decision.verdict = "Denied"

\* the latest entry of the run log for the task is a skipped firing
LastSkipped(id) ==
  \E k \in 1..Len(firings) :
    /\ firings[k].task = id
    /\ firings[k].state = "skipped"
    /\ \A j \in (k + 1)..Len(firings) : firings[j].task /= id

\* C23: when a task becomes due while its target chat is no longer
\* registered, the firing is skipped (no execution is started) and the task
\* is left as it was, status active; being still active and due it fires
\* again once its chat is registered again.
C23_SkipKeepsActive ==
  /\ [][
       \A k \in 1..Len(firings') :
         (k > Len(firings)
          /\ tasks[firings'[k].task].chat_jid \notin DOMAIN registeredGroups)
           => /\ firings'[k].state = "skipped"
              /\ tasks' = tasks
     ]_vars
  /\ [](\A i \in 1..Len(tasks) :
          LastSkipped(i) => /\ tasks[i].status = "active"
                            /\ IsDue(tasks[i], now))

\* a task was skipped while its chat was deregistered and has fired after
\* the chat was registered again
C23_Witness ==
  \E k \in 1..Len(firings) : \E j \in 1..Len(firings) :
    /\ k < j
    /\ firings[k].task = firings[j].task
    /\ firings[k].state = "skipped"
    /\ firings[j].state = "running"
    /\ tasks[firings[j].task].chat_jid \in DOMAIN registeredGroups

C25_ErrorKeepsSession ==
  [][
    (/\ executions' /= executions
     /\ executions' \subseteq executions
     /\ lastReturn'.output.status = "error")
      => sessions' = sessions
  ]_vars

\* C26: the file of an authorized send_message request is deleted only
\* after the send has completed; when the send fails the request is not
\* removed as if it had been processed: its file is still in the inbound
\* directory or has been moved to the errors directory.
C26_FailedSendKept ==
  \A i \in 1..Len(sent) :
    (sent[i].via = "ipc" /\ ~sent[i].ok)
      => \E f \in files \cup errors : f.id = sent[i].request

\* C27: every message sent on behalf of an IPC request, a request of the
\* privileged group included, goes to a chat that is registered when it is
\* sent (the registry never loses a chat, so it is registered ever after).
C27_SentToRegistered ==
  \A i \in 1..Len(sent) :
    sent[i].via = "ipc" => sent[i].chatId \in DOMAIN registeredGroups

\* C28: a failure while one request file is handled (a text that does not
\* parse, an action that throws, a delete or a move that fails) does not
\* keep the other request files of the same poll from being handled: when
\* the handling of the file at the head of a directory's list ends, whatever
\* its fate, the poll goes on with the rest of that list.
C28_FailureIsolated ==
  [][
    (/\ watcher.queue /= <<>>
     /\ last' /= last
     /\ last'.file.id = Head(watcher.queue))
      => watcher'.queue = Tail(watcher.queue)
  ]_vars

\* the status a task control request asks for
StatusAskedBy(type) ==
  IF type = "pause_task" THEN "paused"
  ELSE IF type = "cancel_task" THEN "cancelled"
  ELSE "active"

\* C29: a pause_task, resume_task or cancel_task request that the watcher
\* has handled, filed by the main group or by the group that owns the task,
\* has changed the task's status accordingly (paused, active, cancelled);
\* a cancelled task never becomes active again.
C29_ControlChangesStatus ==
  /\ [](\A i \in 1..Len(tasks) :
          (/\ HandledTask
           /\ last.file.data.type \in TaskControls
           /\ last.file.data.taskId = tasks[i].id
           /\ last.file.dir \in {MAIN_GROUP_FOLDER, tasks[i].group_folder})
            => tasks[i].status = StatusAskedBy(last.file.data.type))
  /\ [][\A i \in 1..Len(tasks) :
          tasks[i].status = "cancelled" => tasks'[i].status = "cancelled"]_vars

\* C30: the prompt of an execution triggered by a message holds, besides
\* the triggering message itself, only messages of the chat that are newer
\* than the chat's last-agent timestamp.
C30_PromptSinceLastAgent ==
  [][
    \A e \in executions' \ executions :
      \A id \in e.prompt \ {e.id} :
        \E m \in messages :
          /\ m.id = id
          /\ m.chat_jid = e.chatJid
          /\ (\/ lastAgentTimestamp[e.chatJid] = Null
              \/ m.timestamp > lastAgentTimestamp[e.chatJid])
  ]_vars

\* the registered chats whose folder is main
MainChats ==
  {c \in DOMAIN registeredGroups :
     registeredGroups[c].folder = MAIN_GROUP_FOLDER}

\* C31: registration is stable: a chat is registered by a message only
\* while the registry is empty, at most one registered chat maps to the
\* folder main, and the entry of a registered chat is never modified or
\* removed.
C31_RegistrationStable ==
  /\ [](Cardinality(MainChats) <= 1)
  /\ [][
       /\ \A c \in DOMAIN registeredGroups :
            /\ c \in DOMAIN registeredGroups'
            /\ registeredGroups'[c] = registeredGroups[c]
       /\ DOMAIN registeredGroups' /= DOMAIN registeredGroups
            => DOMAIN registeredGroups = {}
     ]_vars

\* the first chat was registered as main, and the message of another chat
\* that came after it registered nothing and was not stored
C31_Witness ==
  /\ nextMsg = 2
  /\ Cardinality(DOMAIN registeredGroups) = 1
  /\ Cardinality(MainChats) = 1
  /\ Cardinality(messages) = 1

\* C32: every task created through IPC has a chat_jid that is a registered
\* chat whose folder is the task's group_folder, and a schedule_task
\* request whose target folder has no registered chat creates no task.
C32_TaskChatOfFolder ==
  /\ \A i \in 1..Len(tasks) :
       OwnChat(tasks[i].chat_jid, tasks[i].group_folder)
  /\ (/\ HandledTask
      /\ last.file.data.type = "schedule_task"
      /\ \A c \in DOMAIN registeredGroups :
           registeredGroups[c].folder /= last.file.data.groupFolder)
       => last.creates = 0

\* a task is in the store, and the main group's request for the folder
\* beta, which no chat is registered for, has just been turned down
C32_Witness ==
  /\ Len(tasks) = 1
  /\ HandledTask
  /\ last.file.dir = MAIN_GROUP_FOLDER
  /\ last.file.data.type = "schedule_task"
  /\ last.file.data.groupFolder = "beta"
  /\ last.creates = 0

\* C33: the schedule_task tool called by a non-main group with a
\* groupFolder other than its own returns a permission error and writes no
\* request file, and every request file the tool has written for a non-main
\* group names the issuing group's folder as groupFolder.
C33_ToolOwnFolderOnly ==
  /\ [][
       (/\ toolCall' /= toolCall
        /\ ~toolCall'.isMain
        /\ Truthy(toolCall'.target)
        /\ toolCall'.target /= toolCall'.groupFolder)
         => toolCall'.isError /\ files' = files
     ]_vars
  /\ [](\A f \in files :
          (f.tool /\ f.kind = "tasks" /\ f.dir /= MAIN_GROUP_FOLDER)
            => f.data.groupFolder = f.dir)

\* alpha's agent has queued a task for itself and was then refused one for
\* the folder main
C33_Witness ==
  /\ toolCall.isError
  /\ toolCall.groupFolder = "alpha"
  /\ toolCall.target = MAIN_GROUP_FOLDER
  /\ \E f \in files : f.tool /\ f.kind = "tasks" /\ f.dir = "alpha"

\* what a request asks for: the chat of a message, the folder of a task
TargetOf(data) ==
  IF data.type = "message" THEN data.chatJid ELSE data.groupFolder

\* the target belongs to the group of the directory
OwnTarget(data, dir) ==
  IF data.type = "message" THEN OwnChat(data.chatJid, dir)
  ELSE data.groupFolder = dir

\* C34: the authorization decision depends only on the directory the file
\* was found in, the requested target and the registry: two requests found
\* in the same directory that ask for the same target get the same
\* decision whatever their other fields hold, a request found in the
\* directory of a non-main group is authorized exactly when its target is
\* that group's own (so the same payload in the directories of two
\* non-main groups is judged for each group by itself), and no field makes
\* it privileged.
C34_DecisionByDirectory ==
  probe.judged =>
    /\ (/\ probe.dir[1] = probe.dir[2]
        /\ probe.data[1].type = probe.data[2].type
        /\ TargetOf(probe.data[1]) = TargetOf(probe.data[2]))
         => probe.verdict[1] = probe.verdict[2]
    /\ \A k \in {1, 2} :
         probe.dir[k] /= MAIN_GROUP_FOLDER
           => (probe.verdict[k] <=> OwnTarget(probe.data[k], probe.dir[k]))

\* one payload, naming main as its groupFolder, was found in the
\* directories of alpha and of beta: alpha's is authorized, beta's is not
C34_Witness ==
  /\ probe.judged
  /\ probe.data[1] = probe.data[2]
  /\ probe.data[1].type = "message"
  /\ probe.data[1].chatJid = "c2"
  /\ probe.data[1].groupFolder = MAIN_GROUP_FOLDER
  /\ probe.dir = <<"alpha", "beta">>
  /\ probe.verdict = <<TRUE, FALSE>>

\* C35: polls of the IPC watcher never overlap: at most one poll is reading
\* or acting on request files at any time, no timer is armed while a poll
\* runs (the next poll is scheduled only when the current one has handled
\* every file), and exactly one timer is armed between polls.
C35_PollsNeverOverlap ==
  /\ watcher.polls <= 1
  /\ watcher.polls + watcher.timers = 1
  /\ watcher.timers = 1 <=> watcher.pc = "idle"
  /\ watcher.pc = "idle" => watcher.queue = <<>>

\* a poll has just made a send and has another file of the directory
\* still to handle; no timer is armed
C35_Witness ==
  /\ watcher.polls = 1
  /\ watcher.timers = 0
  /\ last.sends = 1
  /\ watcher.queue /= <<>>

\* C36: a request file that has been moved to the errors area stays there
\* and is never read or acted on again by any later poll: no poll lists it
\* and no step handles it.
C36_ErrorsNeverReread ==
  [][
    \A f \in errors :
      /\ f \in errors'
      /\ ~(last' /= last /\ last'.file.id = f.id)
      /\ \A i \in 1..Len(watcher'.queue) : watcher'.queue[i] /= f.id
      /\ ActionsFor(f.id)' = ActionsFor(f.id)
  ]_vars

\* a task file of alpha is in the errors area, and a later poll has just
\* handled a message file of alpha
C36_Witness ==
  /\ \E f \in errors : f.dir = "alpha" /\ f.kind = "tasks"
  /\ HandledMessage
  /\ last.file.dir = "alpha"

\* C37: for each chat the last-agent timestamp never moves backwards: every
\* update sets it to a value greater than or equal to the one it had.
C37_LastAgentMonotone ==
  [][\A c \in Chats : lastAgentTimestamp'[c] >= lastAgentTimestamp[c]]_vars

\* C38: the tool loop of the agent runner ends: it makes at most
\* maxIterations rounds, returns the model's text from the first round that
\* asks for no tool, returns the iteration limit text when every round
\* asked for tools, and reports as newSessionId the session id it was
\* given when one was given.
C38_ToolLoopTerminates ==
  /\ runner.iteration <= MaxIterations
  /\ (runner.pc = "exited" /\ runner.exitCode = 0) =>
       LET out == runner.io.stdout[2].value
       IN /\ out.status = "success"
          /\ runner.answered => out.result \in {Absent, "reply"}
          /\ ~runner.answered => /\ runner.iteration = MaxIterations
                                 /\ out.result = MaxIterationsText
          /\ Truthy(runner.stdin.sessionId)
               => out.newSessionId = runner.stdin.sessionId

\* every round asked for tools: the runner of a request with session s1
\* has exited with the iteration limit text
C38_Witness ==
  /\ runner.pc = "exited"
  /\ runner.exitCode = 0
  /\ ~runner.answered
  /\ runner.iteration = MaxIterations
  /\ runner.stdin.sessionId = "s1"
  /\ runner.io.stdout[2].value.result = MaxIterationsText
  /\ runner.io.stdout[2].value.newSessionId = "s1"

====
